---- MODULE Spec2Model ----
(***************************************************************************)
(* State-machine model of opencode-comments-plugin:                        *)
(*   - the pending-call table of the hook module (pendingCalls, the TTL    *)
(*     sweep, tool.execute.before / tool.execute.after),                   *)
(*   - the memoised single-flight binary resolver of the cli module        *)
(*     (resolvedCliPath, initPromise, getCommentCheckerPath, ...),         *)
(*   - the downloader (downloadCommentChecker, ensureCommentCheckerBinary),*)
(*   - the check invoker (runCommentChecker).                              *)
(* JavaScript runs one callback at a time: every action below is the code  *)
(* an async function runs between two suspension points (await).           *)
(***************************************************************************)
EXTENDS Integers, Sequences, FiniteSets, TLC

(***************************************************************************)
(* Bounds of the model.                                                    *)
(***************************************************************************)
MaxTicks == 7
MaxAfter == 2
MaxTasks == 2
MaxApiCalls == 2

(***************************************************************************)
(* Program constants.                                                      *)
(***************************************************************************)
PENDING_CALL_TTL == 60000
SWEEP_INTERVAL == 10000
EXIT_CLEAN == 0
EXIT_COMMENTS == 2

\* The clock advances from one firing of the timer to the next.
TickMs == SWEEP_INTERVAL

(***************************************************************************)
(* Strings are sequences of one-character strings, so that toLowerCase,    *)
(* startsWith and includes are computed as JavaScript computes them.       *)
(***************************************************************************)
UpperLetters ==
  <<"A","B","C","D","E","F","G","H","I","J","K","L","M",
    "N","O","P","Q","R","S","T","U","V","W","X","Y","Z">>
LowerLetters ==
  <<"a","b","c","d","e","f","g","h","i","j","k","l","m",
    "n","o","p","q","r","s","t","u","v","w","x","y","z">>

lowerChar(ch) ==
  IF \E i \in 1..26 : UpperLetters[i] = ch
  THEN LowerLetters[CHOOSE i \in 1..26 : UpperLetters[i] = ch]
  ELSE ch

toLowerCase(s) == [i \in 1..Len(s) |-> lowerChar(s[i])]

startsWith(s, p) == Len(p) <= Len(s) /\ SubSeq(s, 1, Len(p)) = p

includes(s, p) ==
  \E i \in 0..(Len(s) - Len(p)) : SubSeq(s, i + 1, i + Len(p)) = p

(***************************************************************************)
(* constants module of the plugin (its file is not part of the sources):   *)
(* the tool names the hook tracks and the failure substrings.              *)
(***************************************************************************)
TOOL_NAMES ==
  { <<"w","r","i","t","e">>, <<"e","d","i","t">>,
    <<"m","u","l","t","i","e","d","i","t">> }

OUTPUT_FAILURE_PATTERNS ==
  { <<"f","a","i","l","e","d"," ","t","o">>, <<"n","o","t"," ","f","o","u","n","d">> }

(***************************************************************************)
(* Values.                                                                 *)
(***************************************************************************)
Undefined == "undefined"
NoPath == "null"
BundledPath == "pkg/bin/comment-checker"
CachePath == "cache/bin/comment-checker"
EmptyPath == ""
Paths == {BundledPath, CachePath}

CallIDs == {"c1", "c2"}
NoCall == [tool |-> <<>>, filePath |-> Undefined, content |-> Undefined,
           oldString |-> Undefined, newString |-> Undefined, edits |-> Undefined,
           sessionID |-> Undefined, timestamp |-> -1]

(***************************************************************************)
(* Platform descriptors (downloader.ts).  A platform key is the pair       *)
(* <<process.platform, process.arch>>.                                     *)
(***************************************************************************)
NoInfo == [os |-> Undefined, arch |-> Undefined, ext |-> Undefined]

PLATFORM_MAP(key) ==
  CASE key = <<"darwin", "arm64">> -> [os |-> "darwin", arch |-> "arm64", ext |-> "tar.gz"]
    [] key = <<"darwin", "x64">> -> [os |-> "darwin", arch |-> "amd64", ext |-> "tar.gz"]
    [] key = <<"linux", "arm64">> -> [os |-> "linux", arch |-> "arm64", ext |-> "tar.gz"]
    [] key = <<"linux", "x64">> -> [os |-> "linux", arch |-> "amd64", ext |-> "tar.gz"]
    [] key = <<"win32", "x64">> -> [os |-> "windows", arch |-> "amd64", ext |-> "zip"]
    [] OTHER -> NoInfo

\* The platforms a run of the model may be on: two supported ones (one of
\* them without a permission bit) and one without a descriptor.
Platforms == { <<"linux", "x64">>, <<"win32", "x64">>, <<"freebsd", "x64">> }

(***************************************************************************)
(* The file system, as far as the program looks at it: the bundled         *)
(* executable, the cache directory, the executable in it ("staging": the   *)
(* file exists but is still being written or not yet executable) and the   *)
(* downloaded archive.                                                     *)
(***************************************************************************)
BinStates == {"absent", "staging", "ready"}

existsSync(path, d) ==
  CASE path = BundledPath -> d.bundled
    [] path = CachePath -> d.cacheBin # "absent"
    [] OTHER -> FALSE

getCachedBinaryPath(d) == IF existsSync(CachePath, d) THEN CachePath ELSE NoPath

findCommentCheckerPathSync(d) ==
  IF existsSync(BundledPath, d) THEN BundledPath
  ELSE IF getCachedBinaryPath(d) # NoPath THEN getCachedBinaryPath(d)
  ELSE NoPath

getCommentCheckerPathSyncLookup(resolved, d) == findCommentCheckerPathSync(d)

getCommentCheckerPathSync(resolved, d) ==
  IF resolved # NoPath THEN resolved ELSE findCommentCheckerPathSync(d)

(***************************************************************************)
(* Promises.  Every promise the resolver hands out either is already       *)
(* resolved with a value or follows the promise of one resolution task.    *)
(***************************************************************************)
TaskIds == 1..MaxTasks
NullPromise == [kind |-> "null", id |-> 0, path |-> NoPath]
PromiseOfTask(t) == [kind |-> "task", id |-> t, path |-> NoPath]
PromiseOfValue(p) == [kind |-> "value", id |-> 0, path |-> p]
Promises ==
  {NullPromise} \cup {PromiseOfTask(t) : t \in TaskIds}
    \cup {PromiseOfValue(p) : p \in Paths}

\* fetches counts the network requests the task has made.
IdleTask == [pc |-> "idle", kind |-> "none", result |-> NoPath, fetches |-> 0]

Settled(pr, ts) ==
  \/ pr.kind = "value"
  \/ pr.kind = "task" /\ ts[pr.id].pc = "settled"

ValueOf(pr, ts) == IF pr.kind = "value" THEN pr.path ELSE ts[pr.id].result

(***************************************************************************)
(* State.                                                                  *)
(***************************************************************************)
VARIABLES
  now,              \* Date.now(), in milliseconds
  nextSweep,        \* when the setInterval timer fires next
  pendingCalls,     \* the Map of the hook module: call identifier -> PendingCall
  cliPathPromise,   \* hook module: the promise taken at plugin construction
  hooks,            \* the running invocations of tool.execute.after, one per slot
  done,             \* the invocation of tool.execute.after that returned last
  platform,         \* <<process.platform, process.arch>>
  disk,             \* the file system
  resolvedCliPath,  \* cli module
  initPromise,      \* cli module
  tasks,            \* the asynchronous resolutions and downloads
  callers,          \* promises returned to direct callers of getCommentCheckerPath
  syncRet,          \* what the last call of getCommentCheckerPathSync returned
  run               \* a direct invocation of runCommentChecker

trackerVars == <<now, nextSweep, pendingCalls>>
hookVars == <<cliPathPromise, hooks, done>>
resolverVars == <<disk, resolvedCliPath, initPromise, tasks>>
apiVars == <<callers, syncRet, run>>
vars == <<now, nextSweep, pendingCalls, cliPathPromise, hooks, done, platform, disk,
          resolvedCliPath, initPromise, tasks, callers, syncRet, run>>

(***************************************************************************)
(* The resolver and the downloader, as functions of the state they read    *)
(* and write: R is the record of resolvedCliPath, initPromise, the tasks   *)
(* and the disk.  t is the task running the code.                          *)
(***************************************************************************)
CurR ==
  [resolved |-> resolvedCliPath, init |-> initPromise, tasks |-> tasks,
   disk |-> disk]

SetR(R) ==
  /\ resolvedCliPath' = R.resolved
  /\ initPromise' = R.init
  /\ tasks' = R.tasks
  /\ disk' = R.disk

FreeTasks(ts) == {t \in TaskIds : ts[t].pc = "idle"}
NewTask(ts) == CHOOSE t \in FreeTasks(ts) : \A u \in FreeTasks(ts) : t <= u

\* The task's async function returns v.  For a resolution this is the tail
\* of the async closure in getCommentCheckerPath: a path is memoised in
\* resolvedCliPath, absent is not.
settleWithoutMemo(R, t, v) ==
  [R EXCEPT !.tasks[t].pc = "settled", !.tasks[t].result = v]

settle(R, t, v) ==
  [R EXCEPT !.tasks[t].pc = "settled",
            !.tasks[t].result = v,
            !.resolved = IF R.tasks[t].kind = "resolve" /\ v # NoPath THEN v ELSE @]

downloadCommentCheckerNoSkip(R, t, mkdirOk) ==
  IF PLATFORM_MAP(platform) = NoInfo THEN settle(R, t, NoPath)
  ELSE IF ~R.disk.cacheDir /\ ~mkdirOk THEN settle(R, t, NoPath)
  ELSE [R EXCEPT !.disk.cacheDir = TRUE,
                 !.tasks[t].fetches = @ + 1,
                 !.tasks[t].pc = "fetch"]

downloadCommentCheckerAnyPlatform(R, t, mkdirOk) ==
  IF existsSync(CachePath, R.disk) THEN settle(R, t, CachePath)
  ELSE IF ~R.disk.cacheDir /\ ~mkdirOk THEN settle(R, t, NoPath)
  ELSE [R EXCEPT !.disk.cacheDir = TRUE,
                 !.tasks[t].fetches = @ + 1,
                 !.tasks[t].pc = "fetch"]

\* downloadCommentChecker up to its first await (the fetch).
downloadCommentChecker(R, t, mkdirOk) ==
  IF PLATFORM_MAP(platform) = NoInfo THEN settle(R, t, NoPath)
  ELSE IF existsSync(CachePath, R.disk) THEN settle(R, t, CachePath)
  ELSE IF ~R.disk.cacheDir /\ ~mkdirOk THEN settle(R, t, NoPath)
  ELSE [R EXCEPT !.disk.cacheDir = TRUE,
                 !.tasks[t].fetches = @ + 1,
                 !.tasks[t].pc = "fetch"]

ensureCommentCheckerBinary(R, t, mkdirOk) ==
  IF getCachedBinaryPath(R.disk) # NoPath
  THEN settle(R, t, getCachedBinaryPath(R.disk))
  ELSE downloadCommentChecker(R, t, mkdirOk)

\* The async closure of getCommentCheckerPath, up to its await.
resolveBody(R, t, mkdirOk) ==
  LET syncPath == findCommentCheckerPathSync(R.disk)
  IN IF syncPath # NoPath /\ existsSync(syncPath, R.disk)
     THEN settle(R, t, syncPath)
     ELSE ensureCommentCheckerBinary(R, t, mkdirOk)

\* The resolution a call of getCommentCheckerPath starts.
startResolution(R, mkdirOk) ==
  LET t == NewTask(R.tasks)
      R1 == [R EXCEPT !.tasks[t].kind = "resolve"]
      R2 == resolveBody(R1, t, mkdirOk)
  IN [st |-> [R2 EXCEPT !.init = PromiseOfTask(t)], ret |-> PromiseOfTask(t)]

getCommentCheckerPathNoSingleFlight(R, mkdirOk) ==
  IF R.resolved # NoPath
  THEN [st |-> R, ret |-> PromiseOfValue(R.resolved)]
  ELSE startResolution(R, mkdirOk)

getCommentCheckerPathRetry(R, mkdirOk) ==
  IF R.resolved # NoPath
  THEN [st |-> R, ret |-> PromiseOfValue(R.resolved)]
  ELSE IF R.init # NullPromise /\ ~Settled(R.init, R.tasks)
  THEN [st |-> R, ret |-> R.init]
  ELSE startResolution(R, mkdirOk)

\* getCommentCheckerPath: the state it leaves and the promise it returns.
getCommentCheckerPath(R, mkdirOk) ==
  IF R.resolved # NoPath
  THEN [st |-> R, ret |-> PromiseOfValue(R.resolved)]
  ELSE IF R.init # NullPromise
  THEN [st |-> R, ret |-> R.init]
  ELSE startResolution(R, mkdirOk)

startBackgroundInit(R, mkdirOk) ==
  IF R.init # NullPromise THEN R
  ELSE LET g == getCommentCheckerPath(R, mkdirOk)
       IN [g.st EXCEPT !.init = g.ret]

(***************************************************************************)
(* The hook module: inputs of tool.execute.before.                         *)
(***************************************************************************)
EmptyArgs ==
  [filePath |-> Undefined, file_path |-> Undefined, path |-> Undefined,
   content |-> Undefined, oldString |-> Undefined, old_string |-> Undefined,
   newString |-> Undefined, new_string |-> Undefined, edits |-> Undefined]

WriteArgs == [EmptyArgs EXCEPT !.filePath = "a.ts", !.content = "// x"]
EditArgs ==
  [EmptyArgs EXCEPT !.file_path = "a.ts", !.old_string = "// TODO",
                    !.new_string = "// TODO: fix"]
NoPathArgs == [EmptyArgs EXCEPT !.content = "// x"]
\* edits is an array of {old_string, new_string}; the hook passes it on as it is.
MultiEditArgs == [EmptyArgs EXCEPT !.path = "a.ts", !.edits = "[{// a, // b}]"]
\* Arguments the hook accepts although they do not fit the tool: a file
\* path and nothing else, and a content together with an old/new pair.
PathOnlyArgs == [EmptyArgs EXCEPT !.filePath = "a.ts"]
MixedArgs == [WriteArgs EXCEPT !.oldString = "// TODO", !.newString = "// TODO: fix"]

ToolWrite == <<"W","r","i","t","e">>
ToolEdit == <<"e","d","i","t">>
ToolMultiEdit == <<"M","u","l","t","i","E","d","i","t">>
ToolRead == <<"r","e","a","d">>

BeforeInputs ==
  { [tool |-> ToolWrite, args |-> WriteArgs],
    [tool |-> ToolEdit, args |-> EditArgs],
    [tool |-> ToolMultiEdit, args |-> MultiEditArgs],
    [tool |-> ToolEdit, args |-> PathOnlyArgs],
    [tool |-> ToolWrite, args |-> MixedArgs],
    [tool |-> ToolRead, args |-> WriteArgs],
    [tool |-> ToolWrite, args |-> NoPathArgs] }

\* One tracked call and one the hook ignores.
EditInputs ==
  { [tool |-> ToolEdit, args |-> EditArgs],
    [tool |-> ToolRead, args |-> WriteArgs] }

SessionIDs == {"s1"}

\* a ?? b
coalesce(a, b) == IF a # Undefined THEN a ELSE b

\* The PendingCall tool.execute.before stores, or NoCall when it returns early.
pendingCallOf(input, sessionID, t) ==
  LET toolLower == toLowerCase(input.tool)
      a == input.args
      filePath == coalesce(a.filePath, coalesce(a.file_path, a.path))
  IN IF toolLower \notin TOOL_NAMES THEN NoCall
     ELSE IF filePath = Undefined \/ filePath = "" THEN NoCall
     ELSE [tool |-> toolLower,
           filePath |-> filePath,
           content |-> a.content,
           oldString |-> coalesce(a.oldString, a.old_string),
           newString |-> coalesce(a.newString, a.new_string),
           edits |-> a.edits,
           sessionID |-> sessionID,
           timestamp |-> t]

\* pendingCalls.delete(callID)
deleteKeepsEntry(pcs, c) == pcs

deleteCall(pcs, c) == [pcs EXCEPT ![c] = NoCall]

cleanupComparesCreation(pcs, t) ==
  [c \in CallIDs |->
     IF pcs[c] # NoCall /\ pcs[c].timestamp > PENDING_CALL_TTL
     THEN NoCall ELSE pcs[c]]

cleanupStopsAtFirst(pcs, t) ==
  LET old == {c \in CallIDs :
                pcs[c] # NoCall /\ t - pcs[c].timestamp > PENDING_CALL_TTL}
  IN IF old = {} THEN pcs
     ELSE deleteCall(pcs, CHOOSE c \in old : pcs[c].timestamp >= 0)

cleanupOneSweepLate(pcs, t) ==
  [c \in CallIDs |->
     IF pcs[c] # NoCall /\ t - pcs[c].timestamp > PENDING_CALL_TTL + SWEEP_INTERVAL
     THEN NoCall ELSE pcs[c]]

cleanupOldPendingCalls(pcs, t) ==
  [c \in CallIDs |->
     IF pcs[c] # NoCall /\ t - pcs[c].timestamp > PENDING_CALL_TTL
     THEN NoCall ELSE pcs[c]]

(***************************************************************************)
(* Tool outputs and the failure test of tool.execute.after.                *)
(***************************************************************************)
OutOk == <<"d","o","n","e">>
OutError == <<"E","r","r","o","r",":"," ","x">>
OutFailed == <<"x"," ","f","a","i","l","e","d"," ","t","o"," ","y">>
Outputs == {OutOk, OutError, OutFailed}

ErrorToken == <<"e","r","r","o","r">>

isToolFailureCaseSensitive(output) ==
  \/ startsWith(output, ErrorToken)
  \/ \E pattern \in OUTPUT_FAILURE_PATTERNS : includes(output, pattern)

isToolFailure(output) ==
  LET outputLower == toLowerCase(output)
  IN \/ startsWith(outputLower, ErrorToken)
     \/ \E pattern \in OUTPUT_FAILURE_PATTERNS : includes(outputLower, pattern)

(***************************************************************************)
(* runCommentChecker.                                                      *)
(***************************************************************************)
NoComments == [hasComments |-> FALSE, message |-> <<>>]

\* options.cliPath ?? resolvedCliPath ?? getCommentCheckerPathSync()
pickBinaryPath(optCliPath, resolved, d) ==
  IF optCliPath # Undefined THEN optCliPath
  ELSE IF resolved # NoPath THEN resolved
  ELSE getCommentCheckerPathSync(resolved, d)

\* The two early returns: a falsy path, a path that is not on disk.
canRun(binaryPath, d) ==
  /\ binaryPath # NoPath
  /\ binaryPath # EmptyPath
  /\ existsSync(binaryPath, d)

classifyNonZero(exitCode, stderr) ==
  IF exitCode = EXIT_CLEAN THEN NoComments
  ELSE [hasComments |-> TRUE, message |-> stderr]

\* The result for a subprocess that ran to its exit.
classify(exitCode, stderr) ==
  IF exitCode = EXIT_CLEAN THEN NoComments
  ELSE IF exitCode = EXIT_COMMENTS THEN [hasComments |-> TRUE, message |-> stderr]
  ELSE NoComments

ExitCodes == {0, 1, 2}
Stderrs == { <<>>, <<"N","e","w">> }
Separator == <<"\n", "\n">>

mergeResultOneNewline(output, result) ==
  IF result.hasComments /\ result.message # <<>>
  THEN output \o <<"\n">> \o result.message
  ELSE output

\* output.output after the result of the check is merged into it.
mergeResult(output, result) ==
  IF result.hasComments /\ result.message # <<>>
  THEN output \o Separator \o result.message
  ELSE output

(***************************************************************************)
(* Initial state: the modules are loaded (the sweep timer is armed), the   *)
(* plugin function has not run yet.                                        *)
(***************************************************************************)
InitDisks ==
  { d \in [bundled : BOOLEAN, cacheDir : BOOLEAN, cacheBin : {"absent", "ready"},
           archive : {FALSE}] : d.cacheBin = "ready" => d.cacheDir }

IdleHook ==
  [pc |-> "idle", callID |-> "none", call |-> NoCall, o |-> <<>>, out |-> <<>>,
   awaiting |-> NullPromise, bin |-> NoPath, spawned |-> FALSE]

\* What is kept of an invocation of tool.execute.after that has returned:
\* its call identifier, whether it obtained a pending call, the tool output
\* it was given (o) and left (out), and what its check did.
NoneDone ==
  [callID |-> "none", got |-> FALSE, o |-> <<>>, out |-> <<>>,
   spawned |-> FALSE, exitCode |-> -1, stderr |-> <<>>]

returned(h, exitCode, stderr, out) ==
  [callID |-> h.callID, got |-> h.call # NoCall, o |-> h.o, out |-> out,
   spawned |-> h.spawned, exitCode |-> exitCode, stderr |-> stderr]

IdleRun ==
  [pc |-> "idle", opt |-> Undefined, bin |-> NoPath, existed |-> FALSE,
   spawned |-> FALSE, exitCode |-> -1, stderr |-> <<>>, result |-> NoComments]

AfterSlots == 1..MaxAfter
ApiCalls == 1..MaxApiCalls

Init ==
  /\ now = 0
  /\ nextSweep = SWEEP_INTERVAL
  /\ pendingCalls = [c \in CallIDs |-> NoCall]
  /\ cliPathPromise = NullPromise
  /\ hooks = [s \in AfterSlots |-> IdleHook]
  /\ done = NoneDone
  /\ platform \in Platforms
  /\ disk \in InitDisks
  /\ resolvedCliPath = NoPath
  /\ initPromise = NullPromise
  /\ tasks = [t \in TaskIds |-> IdleTask]
  /\ callers = [i \in ApiCalls |-> NullPromise]
  /\ syncRet = "none"
  /\ run = IdleRun

(***************************************************************************)
(* Time and the sweep timer: setInterval(cleanupOldPendingCalls, 10_000).  *)
(* A continuation whose promise has settled is a microtask: it runs before *)
(* the clock advances and before the timer's callback.                     *)
(***************************************************************************)
NoMicrotask ==
  \A s \in AfterSlots :
    hooks[s].pc = "awaitPath" => ~Settled(hooks[s].awaiting, tasks)

Tick ==
  /\ NoMicrotask
  /\ now + TickMs <= nextSweep
  /\ now + TickMs <= MaxTicks * TickMs
  /\ now' = now + TickMs
  /\ UNCHANGED <<nextSweep, pendingCalls, platform>>
  /\ UNCHANGED <<hookVars, resolverVars, apiVars>>

Sweep ==
  /\ NoMicrotask
  /\ now = nextSweep
  /\ pendingCalls' = cleanupOldPendingCalls(pendingCalls, now)
  /\ nextSweep' = nextSweep + SWEEP_INTERVAL
  /\ UNCHANGED <<now, platform>>
  /\ UNCHANGED <<hookVars, resolverVars, apiVars>>

(***************************************************************************)
(* The plugin function: CommentCheckerPlugin.                              *)
(***************************************************************************)
Construct ==
  /\ FreeTasks(tasks) # {}
  /\ \E mkdirOk \in BOOLEAN :
       LET R1 == startBackgroundInit(CurR, mkdirOk)
           g == getCommentCheckerPath(R1, mkdirOk)
       IN /\ cliPathPromise' = g.ret
          /\ SetR(g.st)
  /\ UNCHANGED <<hooks, done, platform>>
  /\ UNCHANGED <<trackerVars, apiVars>>

(***************************************************************************)
(* tool.execute.before                                                     *)
(***************************************************************************)
BeforeKeepsTimestamp(c, input, sessionID) ==
  /\ cliPathPromise # NullPromise
  /\ LET call == pendingCallOf(input, sessionID, now)
     IN pendingCalls' =
          IF call = NoCall THEN pendingCalls
          ELSE IF pendingCalls[c] = NoCall THEN [pendingCalls EXCEPT ![c] = call]
          ELSE [pendingCalls EXCEPT
                  ![c] = [call EXCEPT !.timestamp = pendingCalls[c].timestamp]]
  /\ UNCHANGED <<now, nextSweep, platform>>
  /\ UNCHANGED <<hookVars, resolverVars, apiVars>>

Before(c, input, sessionID) ==
  /\ cliPathPromise # NullPromise
  /\ LET call == pendingCallOf(input, sessionID, now)
     IN pendingCalls' =
          IF call = NoCall THEN pendingCalls
          ELSE [pendingCalls EXCEPT ![c] = call]
  /\ UNCHANGED <<now, nextSweep, platform>>
  /\ UNCHANGED <<hookVars, resolverVars, apiVars>>

(***************************************************************************)
(* tool.execute.after, in the three pieces its awaits cut it into.         *)
(***************************************************************************)
\* From the call to `await cliPathPromise`.  An invocation that goes on to
\* the await takes the first free slot among `slots`; one that returns
\* before it needs none.
FreeSlots(slots) == {s \in slots : hooks[s].pc = "idle"}

AfterCall(slots, c, output) ==
  /\ cliPathPromise # NullPromise
  /\ LET pendingCall == pendingCalls[c]
         h == [IdleHook EXCEPT !.callID = c, !.o = output, !.out = output]
     IN IF pendingCall = NoCall
        THEN /\ done' = returned(h, -1, <<>>, h.out)
             /\ UNCHANGED <<pendingCalls, hooks>>
        ELSE IF isToolFailure(output)
        THEN /\ pendingCalls' = deleteCall(pendingCalls, c)
             /\ done' = returned([h EXCEPT !.call = pendingCall], -1, <<>>, h.out)
             /\ UNCHANGED hooks
        ELSE /\ FreeSlots(slots) # {}
             /\ LET s == CHOOSE x \in FreeSlots(slots) :
                           \A y \in FreeSlots(slots) : x <= y
                IN hooks' =
                     [hooks EXCEPT ![s] =
                        [h EXCEPT !.pc = "awaitPath", !.call = pendingCall,
                                  !.awaiting = cliPathPromise]]
             /\ pendingCalls' = deleteCall(pendingCalls, c)
             /\ UNCHANGED done
  /\ UNCHANGED <<now, nextSweep, cliPathPromise, platform>>
  /\ UNCHANGED <<resolverVars, apiVars>>

\* From the settling of the awaited promise to the await on the subprocess:
\* the availability test of the hook, then runCommentChecker up to its
\* first await.
AfterResume(s) ==
  /\ hooks[s].pc = "awaitPath"
  /\ Settled(hooks[s].awaiting, tasks)
  /\ LET cliPath == ValueOf(hooks[s].awaiting, tasks)
         binaryPath == pickBinaryPath(Undefined, resolvedCliPath, disk)
         return(h) == /\ done' = returned(h, -1, <<>>, h.out)
                      /\ hooks' = [hooks EXCEPT ![s] = IdleHook]
     IN IF cliPath = NoPath \/ ~existsSync(cliPath, disk)
        THEN return(hooks[s])
        ELSE IF ~canRun(binaryPath, disk)
        THEN return([hooks[s] EXCEPT !.bin = binaryPath])
        ELSE \E spawnOk \in BOOLEAN :
               IF spawnOk
               THEN /\ hooks' = [hooks EXCEPT ![s].pc = "awaitProc",
                                              ![s].bin = binaryPath,
                                              ![s].spawned = TRUE]
                    /\ UNCHANGED done
               ELSE return([hooks[s] EXCEPT !.bin = binaryPath])
  /\ UNCHANGED <<cliPathPromise, platform>>
  /\ UNCHANGED <<trackerVars, resolverVars, apiVars>>

\* The subprocess exits: the result of runCommentChecker, merged into the output.
AfterProcExit(s, exitCode, stderr) ==
  /\ hooks[s].pc = "awaitProc"
  /\ done' = returned(hooks[s], exitCode, stderr,
                      mergeResult(hooks[s].out, classify(exitCode, stderr)))
  /\ hooks' = [hooks EXCEPT ![s] = IdleHook]
  /\ UNCHANGED <<cliPathPromise, platform>>
  /\ UNCHANGED <<trackerVars, resolverVars, apiVars>>

(***************************************************************************)
(* The rest of downloadCommentChecker, one action per await.               *)
(***************************************************************************)
\* await fetch(...): the response, or a connection error.
FetchDone(t, outcome) ==
  /\ tasks[t].pc = "fetch"
  /\ IF outcome = "ok"
     THEN SetR([CurR EXCEPT !.tasks[t].pc = "write"])
     ELSE SetR(settle(CurR, t, NoPath))
  /\ UNCHANGED <<platform>>
  /\ UNCHANGED <<trackerVars, hookVars, apiVars>>

\* await response.arrayBuffer(), await Bun.write(archivePath, ...), and the
\* spawn of the extraction utility.
WriteDone(t, writeOk, spawnOk) ==
  /\ tasks[t].pc = "write"
  /\ IF ~writeOk
     THEN SetR(settle(CurR, t, NoPath))
     ELSE IF ~spawnOk
     THEN SetR(settle([CurR EXCEPT !.disk.archive = TRUE], t, NoPath))
     ELSE SetR([CurR EXCEPT !.disk.archive = TRUE, !.tasks[t].pc = "extract"])
  /\ UNCHANGED <<platform>>
  /\ UNCHANGED <<trackerVars, hookVars, apiVars>>

\* The extraction utility, running, creates the executable in the cache.
Extracting(t) ==
  /\ tasks[t].pc = "extract"
  /\ disk.cacheBin # "staging"
  /\ disk' = [disk EXCEPT !.cacheBin = "staging"]
  /\ UNCHANGED <<resolvedCliPath, initPromise, tasks, platform>>
  /\ UNCHANGED <<trackerVars, hookVars, apiVars>>

ExtractDoneIgnoresChmod(t, exitOk, unlinkOk, chmodOk) ==
  /\ tasks[t].pc = "extract"
  /\ IF ~exitOk THEN SetR(settle(CurR, t, NoPath))
     ELSE IF disk.archive /\ ~unlinkOk THEN SetR(settle(CurR, t, NoPath))
     ELSE SetR(settle([CurR EXCEPT !.disk.archive = FALSE], t, CachePath))
  /\ UNCHANGED <<platform>>
  /\ UNCHANGED <<trackerVars, hookVars, apiVars>>

\* await proc.exited of the extraction, then the synchronous tail: remove
\* the archive, chmod the executable, return binaryPath.
ExtractDone(t, exitOk, unlinkOk, chmodOk) ==
  /\ tasks[t].pc = "extract"
  /\ IF ~exitOk THEN SetR(settle(CurR, t, NoPath))
     ELSE IF disk.archive /\ ~unlinkOk THEN SetR(settle(CurR, t, NoPath))
     ELSE LET R1 == [CurR EXCEPT !.disk.archive = FALSE]
          IN IF platform[1] # "win32" /\ existsSync(CachePath, R1.disk)
             THEN IF chmodOk
                  THEN SetR(settle([R1 EXCEPT !.disk.cacheBin = "ready"], t, CachePath))
                  ELSE SetR(settle(R1, t, NoPath))
             ELSE SetR(settle(
                    [R1 EXCEPT !.disk.cacheBin = IF @ = "staging" THEN "ready" ELSE @],
                    t, CachePath))
  /\ UNCHANGED <<platform>>
  /\ UNCHANGED <<trackerVars, hookVars, apiVars>>

(***************************************************************************)
(* The environment: other processes and the user change the file system.   *)
(***************************************************************************)
EnvInstallCache ==
  /\ disk.cacheBin = "absent"
  /\ disk' = [disk EXCEPT !.cacheBin = "ready", !.cacheDir = TRUE]
  /\ UNCHANGED <<resolvedCliPath, initPromise, tasks, platform>>
  /\ UNCHANGED <<trackerVars, hookVars, apiVars>>

EnvRemoveCache ==
  /\ disk.cacheBin = "ready"
  /\ disk' = [disk EXCEPT !.cacheBin = "absent"]
  /\ UNCHANGED <<resolvedCliPath, initPromise, tasks, platform>>
  /\ UNCHANGED <<trackerVars, hookVars, apiVars>>

EnvToggleBundled ==
  /\ disk' = [disk EXCEPT !.bundled = ~@]
  /\ UNCHANGED <<resolvedCliPath, initPromise, tasks, platform>>
  /\ UNCHANGED <<trackerVars, hookVars, apiVars>>

(***************************************************************************)
(* Direct calls of the functions the cli and downloader modules export.    *)
(***************************************************************************)
\* getCommentCheckerPath(), by a caller that keeps the promise.
ResolveCall(i) ==
  /\ callers[i] = NullPromise
  /\ \A j \in ApiCalls : j < i => callers[j] # NullPromise
  /\ FreeTasks(tasks) # {}
  /\ \E mkdirOk \in BOOLEAN :
       LET g == getCommentCheckerPath(CurR, mkdirOk)
       IN /\ callers' = [callers EXCEPT ![i] = g.ret]
          /\ SetR(g.st)
  /\ UNCHANGED <<syncRet, run, platform>>
  /\ UNCHANGED <<trackerVars, hookVars>>

\* getCommentCheckerPathSync()
ResolveSyncCall ==
  /\ syncRet' = getCommentCheckerPathSync(resolvedCliPath, disk)
  /\ UNCHANGED <<callers, run, platform>>
  /\ UNCHANGED <<trackerVars, hookVars, resolverVars>>

\* A task is left for the resolution while it has not started.
DirectTaskFree ==
  /\ FreeTasks(tasks) # {}
  /\ Cardinality(FreeTasks(tasks)) >= 2 \/ initPromise # NullPromise

\* ensureCommentCheckerBinary(), up to its first await.
EnsureCall ==
  /\ DirectTaskFree
  /\ \E mkdirOk \in BOOLEAN :
       LET t == NewTask(tasks)
       IN SetR(ensureCommentCheckerBinary(
                 [CurR EXCEPT !.tasks[t].kind = "ensure"], t, mkdirOk))
  /\ UNCHANGED <<platform>>
  /\ UNCHANGED <<trackerVars, hookVars, apiVars>>

\* downloadCommentChecker(), up to its first await.
DownloadCall ==
  /\ DirectTaskFree
  /\ \E mkdirOk \in BOOLEAN :
       LET t == NewTask(tasks)
       IN SetR(downloadCommentChecker(
                 [CurR EXCEPT !.tasks[t].kind = "download"], t, mkdirOk))
  /\ UNCHANGED <<platform>>
  /\ UNCHANGED <<trackerVars, hookVars, apiVars>>

\* runCommentChecker(input, {cliPath: optCliPath}), up to its first await.
OptPaths == {Undefined, EmptyPath, BundledPath, CachePath}

RunCall(optCliPath) ==
  /\ run.pc \in {"idle", "done"}
  /\ LET binaryPath == pickBinaryPath(optCliPath, resolvedCliPath, disk)
         r == [IdleRun EXCEPT !.opt = optCliPath, !.bin = binaryPath,
                              !.existed = existsSync(binaryPath, disk)]
     IN IF ~canRun(binaryPath, disk)
        THEN run' = [r EXCEPT !.pc = "done"]
        ELSE \E spawnOk \in BOOLEAN :
               run' = IF spawnOk
                      THEN [r EXCEPT !.pc = "awaitProc", !.spawned = TRUE]
                      ELSE [r EXCEPT !.pc = "done"]
  /\ UNCHANGED <<callers, syncRet, platform>>
  /\ UNCHANGED <<trackerVars, hookVars, resolverVars>>

\* The subprocess exits and runCommentChecker returns.
RunExit(exitCode, stderr) ==
  /\ run.pc = "awaitProc"
  /\ run' = [run EXCEPT !.pc = "done", !.exitCode = exitCode, !.stderr = stderr,
                        !.result = classify(exitCode, stderr)]
  /\ UNCHANGED <<callers, syncRet, platform>>
  /\ UNCHANGED <<trackerVars, hookVars, resolverVars>>

Download ==
  \/ \E t \in TaskIds, outcome \in {"ok", "http_error", "conn_error"} :
       FetchDone(t, outcome)
  \/ \E t \in TaskIds, writeOk \in BOOLEAN, spawnOk \in BOOLEAN :
       WriteDone(t, writeOk, spawnOk)
  \/ \E t \in TaskIds : Extracting(t)
  \/ \E t \in TaskIds, exitOk \in BOOLEAN, unlinkOk \in BOOLEAN, chmodOk \in BOOLEAN :
       ExtractDone(t, exitOk, unlinkOk, chmodOk)

Env == EnvInstallCache \/ EnvRemoveCache \/ EnvToggleBundled

\* The hooks, called by the host with inputs from the given set, at most
\* Cardinality(slots) invocations of tool.execute.after being suspended.
HooksOn(slots, inputs) ==
  \/ \E c \in CallIDs, input \in inputs, sid \in SessionIDs : Before(c, input, sid)
  \/ \E c \in CallIDs, output \in Outputs : AfterCall(slots, c, output)
  \/ \E s \in slots : AfterResume(s)
  \/ \E s \in slots, exitCode \in ExitCodes, stderr \in Stderrs :
       AfterProcExit(s, exitCode, stderr)

Hooks == HooksOn(AfterSlots, BeforeInputs)

Resolve ==
  \/ \E i \in ApiCalls : ResolveCall(i)
  \/ EnsureCall
  \/ DownloadCall

Check ==
  \/ ResolveSyncCall
  \/ \E optCliPath \in OptPaths : RunCall(optCliPath)
  \/ \E exitCode \in ExitCodes, stderr \in Stderrs : RunExit(exitCode, stderr)

(***************************************************************************)
(* The whole system, and the parts of it that are model-checked: each      *)
(* part leaves out the actions of the components its properties do not     *)
(* involve, whose variables then keep their initial values.                *)
(***************************************************************************)
Next == Tick \/ Sweep \/ Construct \/ Hooks \/ Resolve \/ Check \/ Download \/ Env

Spec == Init /\ [][Next]_vars

\* The hooks of the plugin, without the clock, on a platform that has a
\* descriptor (the hooks do not read the platform).
InitHooks == Init /\ platform = <<"linux", "x64">>

\* Two invocations of tool.execute.after may be suspended at a time.
HookSlots == {1, 2}

NextHooks == Construct \/ HooksOn(HookSlots, EditInputs) \/ Download \/ Env

SpecHooks == InitHooks /\ [][NextHooks]_vars

\* The resolver and the downloader under their callers.
NextResolver == Construct \/ Resolve \/ Download \/ Env

SpecResolver == Init /\ [][NextResolver]_vars

\* The check invoker and the synchronous accessor.
NextCheck == Construct \/ Check \/ Download \/ Env

SpecCheck == Init /\ [][NextCheck]_vars

\* The pending-call table under the clock: the state after the plugin was
\* constructed on a machine with the bundled executable installed.
ConstructedOn(d) ==
  LET R0 == [resolved |-> NoPath, init |-> NullPromise,
             tasks |-> [t \in TaskIds |-> IdleTask], disk |-> d]
  IN getCommentCheckerPath(startBackgroundInit(R0, TRUE), TRUE)

BundledDisk ==
  [bundled |-> TRUE, cacheDir |-> FALSE, cacheBin |-> "absent", archive |-> FALSE]

InitTracker ==
  /\ now = 0
  /\ nextSweep = SWEEP_INTERVAL
  /\ pendingCalls = [c \in CallIDs |-> NoCall]
  /\ hooks = [s \in AfterSlots |-> IdleHook]
  /\ done = NoneDone
  /\ platform = <<"linux", "x64">>
  /\ cliPathPromise = ConstructedOn(BundledDisk).ret
  /\ disk = ConstructedOn(BundledDisk).st.disk
  /\ resolvedCliPath = ConstructedOn(BundledDisk).st.resolved
  /\ initPromise = ConstructedOn(BundledDisk).st.init
  /\ tasks = ConstructedOn(BundledDisk).st.tasks
  /\ callers = [i \in ApiCalls |-> NullPromise]
  /\ syncRet = "none"
  /\ run = IdleRun

\* One invocation of tool.execute.after is suspended at a time.
TrackerSlots == {1}

NextTracker == Tick \/ Sweep \/ HooksOn(TrackerSlots, EditInputs)

SpecTracker == InitTracker /\ [][NextTracker]_vars

(***************************************************************************)
(* Properties of the pending-call table (SpecTracker).                     *)
(***************************************************************************)
\* This step is an invocation of tool.execute.after reaching its await in
\* slot s: it has obtained a pending call.
Took(s) == hooks[s].pc = "idle" /\ hooks'[s].pc = "awaitPath"

\* This step is an invocation of tool.execute.after that returned before
\* any await.
ReturnedAtOnce == done' # done /\ hooks' = hooks

Expired(call, t) == call # NoCall /\ t - call.timestamp > PENDING_CALL_TTL

\* C1: an after-hook for c that finds the entry recorded under c obtains
\* exactly that entry and removes it, leaving the entries of the other call
\* identifiers alone; an after-hook for c that finds no entry changes
\* nothing, leaves the output as it was and runs no check; and an entry
\* changes only by a record under its identifier, by an after-hook for its
\* identifier, or by a sweep once it is older than the TTL.
C1_TakeExactlyOnce ==
  [][ /\ \A s \in AfterSlots :
           Took(s) =>
             LET c == hooks'[s].callID
             IN /\ pendingCalls[c] # NoCall
                /\ hooks'[s].call = pendingCalls[c]
                /\ pendingCalls' = [pendingCalls EXCEPT ![c] = NoCall]
      /\ ReturnedAtOnce =>
           LET c == done'.callID
           IN IF done'.got
              THEN /\ pendingCalls[c] # NoCall
                   /\ pendingCalls' = [pendingCalls EXCEPT ![c] = NoCall]
              ELSE /\ pendingCalls[c] = NoCall
                   /\ pendingCalls' = pendingCalls
                   /\ done'.out = done'.o
                   /\ ~done'.spawned
      /\ \A c \in CallIDs :
           pendingCalls'[c] # pendingCalls[c] =>
             \/ pendingCalls'[c] # NoCall /\ pendingCalls'[c].timestamp = now
             \/ /\ pendingCalls'[c] = NoCall
                /\ \E s \in AfterSlots : Took(s) /\ hooks'[s].callID = c
             \/ /\ pendingCalls'[c] = NoCall
                /\ hooks' = hooks /\ nextSweep' = nextSweep
                /\ done'.callID = c /\ done'.got
             \/ /\ pendingCalls'[c] = NoCall
                /\ nextSweep' # nextSweep
                /\ Expired(pendingCalls[c], now)
    ]_vars

\* An after-hook holds the call recorded under c1 while c1 has no entry any
\* more, a further after-hook for c1 has returned empty-handed, and the
\* entry of c2 is untouched.
C1_Witness ==
  \E s \in AfterSlots :
    /\ hooks[s].pc = "awaitPath"
    /\ hooks[s].callID = "c1"
    /\ hooks[s].call # NoCall
    /\ pendingCalls["c1"] = NoCall
    /\ pendingCalls["c2"] # NoCall
    /\ done.callID = "c1" /\ ~done.got /\ done.o = OutOk

\* C3 as stated: an after-hook never obtains an entry whose age exceeds the
\* TTL.
C3_ExpiredNeverConsumed ==
  [][ \A s \in AfterSlots :
        Took(s) => ~Expired(pendingCalls[hooks'[s].callID], now) ]_vars

\* C3, amended: an after-hook obtains an entry older than the TTL only while
\* no sweep has run since the entry passed the TTL (the last sweep ran at
\* nextSweep - SWEEP_INTERVAL).
C3_ConsumedUnlessSwept ==
  [][ \A s \in AfterSlots :
        (Took(s) /\ Expired(hooks'[s].call, now)) =>
          ~Expired(hooks'[s].call, nextSweep - SWEEP_INTERVAL) ]_vars

\* An after-hook has just obtained an entry older than the TTL (its
\* continuation is still a pending microtask, so the clock has not moved).
C3_Witness ==
  \E s \in AfterSlots :
    /\ hooks[s].pc = "awaitPath"
    /\ Settled(hooks[s].awaiting, tasks)
    /\ Expired(hooks[s].call, now)

\* C4: a run of the sweep removes every entry older than the TTL.
C4_SweepRemovesExpired ==
  [][ nextSweep' # nextSweep =>
        \A c \in CallIDs :
          Expired(pendingCalls[c], now) => pendingCalls'[c] = NoCall ]_vars

\* The sweep is due, two entries are older than the TTL, and no after-hook
\* was ever issued.
C4_Witness ==
  /\ now = nextSweep
  /\ NoMicrotask
  /\ \A c \in CallIDs : Expired(pendingCalls[c], now)
  /\ done = NoneDone
  /\ \A s \in AfterSlots : hooks[s].pc = "idle"

(***************************************************************************)
(* Properties of the resolver and the downloader (SpecResolver).           *)
(***************************************************************************)
ResolveTasks == {t \in TaskIds : tasks[t].kind = "resolve"}

\* The promises handed to the callers of getCommentCheckerPath.
Holders ==
  ({callers[i] : i \in ApiCalls} \cup {cliPathPromise, initPromise}) \ {NullPromise}

\* Those handed out while no path was resolved: they follow a resolution.
TaskHolders == {p \in Holders : p.kind = "task"}

\* C2: however many callers asked before a path was resolved, one
\* resolution was started, it made at most one network request, and the
\* callers all wait for, and then see, one and the same outcome.
C2_SingleFlight ==
  /\ Cardinality(ResolveTasks) <= 1
  /\ Holders # {} => Cardinality(ResolveTasks) = 1
  /\ \A t \in ResolveTasks : tasks[t].fetches <= 1
  /\ \A p, q \in TaskHolders :
       /\ Settled(p, tasks) = Settled(q, tasks)
       /\ Settled(p, tasks) => ValueOf(p, tasks) = ValueOf(q, tasks)

\* Two direct callers and the plugin asked while the download was in
\* flight; it has completed after one request and all three see the path.
C2_Witness ==
  /\ callers[1].kind = "task"
  /\ callers[2].kind = "task"
  /\ cliPathPromise.kind = "task"
  /\ \E t \in ResolveTasks :
       /\ tasks[t].pc = "settled"
       /\ tasks[t].result = CachePath
       /\ tasks[t].fetches = 1
  /\ \A p \in Holders : Settled(p, tasks) /\ ValueOf(p, tasks) = CachePath

ResolutionSettled == initPromise # NullPromise /\ Settled(initPromise, tasks)

\* C5: once the resolution has settled, no step starts another resolution
\* or changes the settled one (no further request), the resolved path keeps
\* its value, and every promise handed out from then on is already settled
\* with the outcome of that resolution.
C5_ResolvedOnce ==
  [][ ResolutionSettled =>
        /\ {t \in TaskIds : tasks'[t].kind = "resolve"} = ResolveTasks
        /\ \A t \in ResolveTasks : tasks'[t] = tasks[t]
        /\ resolvedCliPath' = resolvedCliPath
        /\ \A i \in ApiCalls :
             callers'[i] # callers[i] =>
               /\ Settled(callers'[i], tasks')
               /\ ValueOf(callers'[i], tasks') = ValueOf(initPromise, tasks)
        /\ cliPathPromise' # cliPathPromise =>
             /\ Settled(cliPathPromise', tasks')
             /\ ValueOf(cliPathPromise', tasks') = ValueOf(initPromise, tasks)
    ]_vars

\* A caller asked after the download had settled with the cache path and was
\* handed that path, although a bundled executable is installed by now.
C5_Witness ==
  /\ \E i \in ApiCalls : callers[i] = PromiseOfValue(CachePath)
  /\ \E t \in ResolveTasks : tasks[t].result = CachePath /\ tasks[t].fetches = 1
  /\ resolvedCliPath = CachePath
  /\ disk.bundled

\* This step is a direct call of ensureCommentCheckerBinary or of
\* downloadCommentChecker, run by task t.
DirectCallBy(t) ==
  tasks[t].pc = "idle" /\ tasks'[t].kind \in {"ensure", "download"}

NoRequestNoWrite ==
  /\ \A u \in TaskIds : tasks'[u].fetches = tasks[u].fetches
  /\ disk' = disk

\* C6 as stated: called with the executable in the cache, both functions
\* make no request, write nothing and return the executable's path.
C6_CachedSkipsDownload ==
  [][ \A t \in TaskIds :
        (DirectCallBy(t) /\ disk.cacheBin # "absent") =>
          /\ NoRequestNoWrite
          /\ tasks'[t].pc = "settled"
          /\ tasks'[t].result = CachePath ]_vars

\* C6, amended: called with the executable in the cache, both functions
\* make no request and write nothing; ensureCommentCheckerBinary returns the
\* executable's path, and so does downloadCommentChecker on a platform that
\* has a descriptor; on a platform without one it returns absent.
C6_CachedSkipsDownloadOnSupported ==
  [][ \A t \in TaskIds :
        (DirectCallBy(t) /\ disk.cacheBin # "absent") =>
          /\ NoRequestNoWrite
          /\ tasks'[t].pc = "settled"
          /\ tasks'[t].result =
               IF tasks'[t].kind = "download" /\ PLATFORM_MAP(platform) = NoInfo
               THEN NoPath ELSE CachePath ]_vars

\* downloadCommentChecker has returned the cached executable without a
\* request.
C6_Witness ==
  \E t \in TaskIds :
    /\ tasks[t].kind = "download"
    /\ tasks[t].pc = "settled"
    /\ tasks[t].result = CachePath
    /\ tasks[t].fetches = 0
    /\ disk.cacheBin = "ready"

C10_SyncAccessor ==
  [][ syncRet' # syncRet =>
        /\ syncRet' =
             IF resolvedCliPath # NoPath THEN resolvedCliPath
             ELSE IF disk.bundled THEN BundledPath
             ELSE IF disk.cacheBin # "absent" THEN CachePath
             ELSE NoPath
        /\ UNCHANGED <<resolvedCliPath, initPromise, tasks, disk>> ]_vars

\* The accessor returned the bundled executable while the resolution, which
\* had found nothing and started a download, was still in flight.
C10_Witness ==
  /\ syncRet = BundledPath
  /\ resolvedCliPath = NoPath
  /\ \E t \in ResolveTasks : tasks[t].pc = "fetch"

(***************************************************************************)
(* Properties of tool.execute.after (SpecHooks).                           *)
(***************************************************************************)
\* The outputs the hook is to treat as failures: those that begin with
\* "error", whatever the case, and those that contain a failure substring.
FailureOutput(o) ==
  \/ Len(o) >= 5 /\ toLowerCase(SubSeq(o, 1, 5)) = <<"e","r","r","o","r">>
  \/ \E p \in OUTPUT_FAILURE_PATTERNS :
       \E i \in 1..Len(o) : i + Len(p) - 1 <= Len(o) /\ SubSeq(o, i, i + Len(p) - 1) = p

\* C8: an after-hook given a failure output spawns no subprocess and leaves
\* the output as it was; it does not even reach the await on the resolver.
C8_FailureSkipsCheck ==
  /\ FailureOutput(done.o) => ~done.spawned /\ done.out = done.o
  /\ \A s \in AfterSlots : hooks[s].pc # "idle" => ~FailureOutput(hooks[s].o)

\* An after-hook that obtained a pending call was given "Error: x" and has
\* returned, with a resolved executable on disk.
C8_Witness ==
  /\ done.got
  /\ done.o = OutError
  /\ resolvedCliPath # NoPath
  /\ existsSync(resolvedCliPath, disk)

\* C9: an after-hook leaves the output it was given followed by a blank
\* line and the subprocess's standard error if it obtained a pending call,
\* the subprocess was spawned (so the output was no failure and the resolved
\* executable was on disk) and exited with code 2 and a non-empty standard
\* error; in every other case it leaves the
\* output as it was; and the output is untouched while the hook is suspended.
C9_OutputMerge ==
  /\ done.out =
       IF /\ done.got /\ done.spawned
          /\ done.exitCode = 2 /\ done.stderr # <<>>
       THEN done.o \o <<"\n", "\n">> \o done.stderr
       ELSE done.o
  /\ \A s \in AfterSlots : hooks[s].out = hooks[s].o

\* The end-to-end case: exit code 2 with a message, appended to the output.
C9_Witness ==
  /\ done.got
  /\ done.o = OutOk
  /\ done.spawned
  /\ done.exitCode = 2
  /\ done.out = OutOk \o <<"\n", "\n", "N", "e", "w">>

(***************************************************************************)
(* Failures of the download (SpecResolver).                                *)
(***************************************************************************)
\* The steps of task t in which an operation of the download fails: the
\* fetch (status or connection), the archive write or the spawn of the
\* extraction utility, and the utility's exit, the removal of the archive
\* or the chmod, the last two where the code performs them.
FailingStep(t) ==
  \/ \E outcome \in {"http_error", "conn_error"} : FetchDone(t, outcome)
  \/ \E writeOk \in BOOLEAN, spawnOk \in BOOLEAN :
       ~(writeOk /\ spawnOk) /\ WriteDone(t, writeOk, spawnOk)
  \/ \E exitOk \in BOOLEAN, unlinkOk \in BOOLEAN, chmodOk \in BOOLEAN :
       /\ \/ ~exitOk
          \/ disk.archive /\ ~unlinkOk
          \/ platform[1] # "win32" /\ disk.cacheBin # "absent" /\ ~chmodOk
       /\ ExtractDone(t, exitOk, unlinkOk, chmodOk)

\* Task t starts in this step, has to download (supported platform, nothing
\* found on disk), and the cache directory it needs could not be created.
MkdirFailed(t) ==
  /\ tasks[t].pc = "idle" /\ tasks'[t].pc # "idle"
  /\ PLATFORM_MAP(platform) # NoInfo
  /\ disk.cacheBin = "absent"
  /\ tasks'[t].kind = "resolve" => ~disk.bundled
  /\ ~disk.cacheDir /\ ~disk'.cacheDir

\* C11: a step in which an operation of the download fails settles the
\* download with absent; if the download is the resolution's, the resolved
\* path stays absent and everyone holding the resolution's promise sees
\* absent.  No step leaves a task in any state but running or settled with a
\* path or absent.
C11_DownloadFailureIsAbsent ==
  [][ \A t \in TaskIds :
        /\ (FailingStep(t) \/ MkdirFailed(t)) =>
             /\ tasks'[t].pc = "settled"
             /\ tasks'[t].result = NoPath
             /\ tasks'[t].kind = "resolve" =>
                  /\ resolvedCliPath' = NoPath
                  /\ \A p \in {cliPathPromise', initPromise'} \cup
                              {callers'[i] : i \in ApiCalls} :
                       p.kind = "task" => ValueOf(p, tasks') = NoPath
        /\ tasks'[t].pc \in {"idle", "fetch", "write", "extract", "settled"}
        /\ tasks'[t].result \in Paths \cup {NoPath} ]_vars

\* The resolution's download failed at the chmod, after the archive was
\* extracted and removed: the resolution has settled with absent.
C11_Witness ==
  \E t \in ResolveTasks :
    /\ tasks[t].pc = "settled"
    /\ tasks[t].result = NoPath
    /\ tasks[t].fetches = 1
    /\ disk.cacheBin = "staging"
    /\ ~disk.archive
    /\ cliPathPromise = PromiseOfTask(t)
    /\ resolvedCliPath = NoPath

(***************************************************************************)
(* The hooks while the download started at construction is in flight: the  *)
(* plugin was constructed on a machine with nothing on disk, so the         *)
(* resolution waits for the fetch.  The download may complete or may not:   *)
(* its steps carry no fairness.  A continuation whose promise has settled   *)
(* is run by the event loop, and a spawned checker exits.                   *)
(***************************************************************************)
EmptyDisk ==
  [bundled |-> FALSE, cacheDir |-> FALSE, cacheBin |-> "absent", archive |-> FALSE]

InitStuck ==
  /\ now = 0
  /\ nextSweep = SWEEP_INTERVAL
  /\ pendingCalls = [c \in CallIDs |-> NoCall]
  /\ hooks = [s \in AfterSlots |-> IdleHook]
  /\ done = NoneDone
  /\ platform = <<"linux", "x64">>
  /\ cliPathPromise = ConstructedOn(EmptyDisk).ret
  /\ disk = ConstructedOn(EmptyDisk).st.disk
  /\ resolvedCliPath = ConstructedOn(EmptyDisk).st.resolved
  /\ initPromise = ConstructedOn(EmptyDisk).st.init
  /\ tasks = ConstructedOn(EmptyDisk).st.tasks
  /\ callers = [i \in ApiCalls |-> NullPromise]
  /\ syncRet = "none"
  /\ run = IdleRun

NextStuck == HooksOn(AfterSlots, EditInputs) \/ Download

FairHooks ==
  /\ WF_vars(\E s \in AfterSlots : AfterResume(s))
  /\ WF_vars(\E s \in AfterSlots, exitCode \in ExitCodes, stderr \in Stderrs :
               AfterProcExit(s, exitCode, stderr))

SpecStuck == InitStuck /\ [][NextStuck]_vars /\ FairHooks

(***************************************************************************)
(* Properties of the hooks under a download in flight (SpecStuck).         *)
(***************************************************************************)
ResolutionInFlight == ~Settled(cliPathPromise, tasks)

\* C12, the part on tool.execute.after: if the resolution stays in flight
\* forever, every invocation of tool.execute.after eventually returns.
C12_AfterHookReturns ==
  ([]ResolutionInFlight) =>
    \A s \in AfterSlots : (hooks[s].pc # "idle") ~> (hooks[s].pc = "idle")

\* C12, the part that holds: while the resolution is in flight, no
\* invocation of tool.execute.after has spawned the checker or touched the
\* output, and none has returned with a check made.
C12_NoCheckBeforeSettled ==
  ResolutionInFlight =>
    /\ \A s \in AfterSlots : ~hooks[s].spawned /\ hooks[s].out = hooks[s].o
    /\ ~done.spawned /\ done.out = done.o

(***************************************************************************)
(* What tool.execute.before stores, for every kind of input (SpecRecord):  *)
(* the before-hook alone, under the clock and the sweep.                    *)
(***************************************************************************)
NextRecord ==
  \/ Tick
  \/ Sweep
  \/ \E c \in CallIDs, input \in BeforeInputs, sid \in SessionIDs :
       Before(c, input, sid)

SpecRecord == InitTracker /\ [][NextRecord]_vars

\* Which of the three payloads a PendingCall carries.
HasContent(call) == call.content # Undefined
HasPair(call) == call.oldString # Undefined \/ call.newString # Undefined
HasEdits(call) == call.edits # Undefined

\* C13: every stored PendingCall carries exactly one of content, old/new
\* pair and edits, and it is the one of its tool: content for write, a
\* complete pair for edit, edits for multiedit.
C13_ExactlyOnePayload ==
  \A c \in CallIDs :
    pendingCalls[c] # NoCall =>
      LET call == pendingCalls[c]
      IN /\ call.tool = toLowerCase(ToolWrite) =>
              HasContent(call) /\ ~HasPair(call) /\ ~HasEdits(call)
         /\ call.tool = toLowerCase(ToolEdit) =>
              /\ ~HasContent(call) /\ ~HasEdits(call)
              /\ call.oldString # Undefined /\ call.newString # Undefined
         /\ call.tool = toLowerCase(ToolMultiEdit) =>
              HasEdits(call) /\ ~HasContent(call) /\ ~HasPair(call)

(***************************************************************************)
(* Platforms without a descriptor (SpecResolver).                          *)
(***************************************************************************)
Unsupported == PLATFORM_MAP(platform) = NoInfo

\* C14 as stated: on a platform without a descriptor no request is ever
\* made, downloadCommentChecker returns absent, and every promise
\* getCommentCheckerPath hands out is settled with absent, whatever is on
\* disk.
C14_UnsupportedAlwaysAbsent ==
  Unsupported =>
    /\ \A t \in TaskIds :
         /\ tasks[t].fetches = 0
         /\ tasks[t].kind = "download" =>
              tasks[t].pc = "settled" /\ tasks[t].result = NoPath
    /\ \A p \in Holders : Settled(p, tasks) /\ ValueOf(p, tasks) = NoPath

\* C14, amended: on a platform without a descriptor no request is ever made
\* and every call returns at once; downloadCommentChecker returns absent
\* whatever is on disk; the resolution returns the bundled executable if it
\* is on disk when the resolution runs, else the cached one if it is, else
\* absent (ensureCommentCheckerBinary: the cached one or absent); and every
\* later call of getCommentCheckerPath returns what the resolution returned,
\* absent included, whatever is put on disk afterwards.
C14_UnsupportedAbsentUnlessOnDisk ==
  [][ Unsupported =>
        LET lookup == IF disk.bundled THEN BundledPath
                      ELSE IF disk.cacheBin # "absent" THEN CachePath
                      ELSE NoPath
        IN /\ \A t \in TaskIds :
                /\ tasks'[t].fetches = 0
                /\ (tasks[t].pc = "idle" /\ tasks'[t].pc # "idle") =>
                     /\ tasks'[t].pc = "settled"
                     /\ tasks'[t].result =
                          CASE tasks'[t].kind = "download" -> NoPath
                            [] tasks'[t].kind = "ensure" ->
                                 IF disk.cacheBin # "absent" THEN CachePath ELSE NoPath
                            [] OTHER -> lookup
           /\ \A i \in ApiCalls :
                callers'[i] # callers[i] =>
                  /\ Settled(callers'[i], tasks')
                  /\ ValueOf(callers'[i], tasks') =
                       IF initPromise = NullPromise THEN lookup
                       ELSE ValueOf(initPromise, tasks) ]_vars

\* On freebsd the resolution found nothing and settled with absent without
\* a request; both executables were installed afterwards, and two later
\* callers still got absent.
C14_Witness ==
  /\ Unsupported
  /\ disk.bundled /\ disk.cacheBin = "ready"
  /\ \E t \in ResolveTasks :
       /\ tasks[t].pc = "settled" /\ tasks[t].result = NoPath /\ tasks[t].fetches = 0
       /\ callers[1] = PromiseOfTask(t)
       /\ callers[2] = PromiseOfTask(t)
  /\ resolvedCliPath = NoPath

(***************************************************************************)
(* Recording over an entry (SpecOverwrite): the table already holds the    *)
(* edit recorded under c1 at time 0, and no after-hook has been issued yet. *)
(* The host goes on calling the hooks for c1, with an edit or a write.      *)
(***************************************************************************)
FirstInput == [tool |-> ToolEdit, args |-> EditArgs]
SecondInput == [tool |-> ToolWrite, args |-> WriteArgs]
OverwriteInputs == {FirstInput, SecondInput}

InitOverwrite ==
  /\ now = 0
  /\ nextSweep = SWEEP_INTERVAL
  /\ pendingCalls =
       [c \in CallIDs |->
          IF c = "c1" THEN pendingCallOf(FirstInput, "s1", 0) ELSE NoCall]
  /\ hooks = [s \in AfterSlots |-> IdleHook]
  /\ done = NoneDone
  /\ platform = <<"linux", "x64">>
  /\ cliPathPromise = ConstructedOn(BundledDisk).ret
  /\ disk = ConstructedOn(BundledDisk).st.disk
  /\ resolvedCliPath = ConstructedOn(BundledDisk).st.resolved
  /\ initPromise = ConstructedOn(BundledDisk).st.init
  /\ tasks = ConstructedOn(BundledDisk).st.tasks
  /\ callers = [i \in ApiCalls |-> NullPromise]
  /\ syncRet = "none"
  /\ run = IdleRun

NextOverwrite ==
  \/ Tick
  \/ Sweep
  \/ \E input \in OverwriteInputs, sid \in SessionIDs : Before("c1", input, sid)
  \/ \E output \in Outputs : AfterCall(TrackerSlots, "c1", output)
  \/ \E s \in TrackerSlots : AfterResume(s)
  \/ \E s \in TrackerSlots, exitCode \in ExitCodes, stderr \in Stderrs :
       AfterProcExit(s, exitCode, stderr)

SpecOverwrite == InitOverwrite /\ [][NextOverwrite]_vars

\* C15: a record under an identifier leaves, under that identifier, exactly
\* the call just given, stamped with the current time, whatever entry was
\* there before; an after-hook obtains the entry as it stands, which is the
\* last one recorded; and the sweep removes an entry exactly when the age
\* counted from its own (last) timestamp exceeds the TTL.
C15_LastWriteWins ==
  [][ /\ \A input \in OverwriteInputs, sid \in SessionIDs :
           Before("c1", input, sid) =>
             /\ pendingCalls'["c1"].tool = toLowerCase(input.tool)
             /\ pendingCalls'["c1"].content = input.args.content
             /\ pendingCalls'["c1"].oldString = input.args.old_string
             /\ pendingCalls'["c1"].newString = input.args.new_string
             /\ pendingCalls'["c1"].sessionID = sid
             /\ pendingCalls'["c1"].timestamp = now
             /\ pendingCalls'["c2"] = pendingCalls["c2"]
      /\ \A s \in AfterSlots :
           Took(s) => hooks'[s].call = pendingCalls[hooks'[s].callID]
      /\ nextSweep' # nextSweep =>
           \A c \in CallIDs :
             pendingCalls'[c] =
               IF Expired(pendingCalls[c], now) THEN NoCall ELSE pendingCalls[c]
    ]_vars

\* The edit recorded at 0 was overwritten by a write at 10000; no after-hook
\* ran in between (none has returned, and the only one running holds the
\* write).  The sweep at 70000, which would have removed the edit, left the
\* write, and the after-hook issued then has obtained the write.
C15_Witness ==
  /\ now = 70000
  /\ nextSweep = 80000
  /\ done = NoneDone
  /\ hooks[1].pc = "awaitProc"
  /\ hooks[1].call.tool = toLowerCase(ToolWrite)
  /\ hooks[1].call.content = WriteArgs.content
  /\ hooks[1].call.timestamp = 10000
  /\ pendingCalls["c1"] = NoCall

\* The age of an entry.
Age(call) == now - call.timestamp

\* The sweep has run at the current time.
JustSwept == now >= SWEEP_INTERVAL /\ nextSweep = now + SWEEP_INTERVAL

\* C16: with the sweep run every 10 seconds, an entry no after-hook takes is
\* never older than 70 seconds, it is that old only at the instant the sweep
\* that removes it is due, and right after a sweep no entry is older than
\* 60 seconds.
C16_AbandonedWithin70s ==
  \A c \in CallIDs :
    pendingCalls[c] # NoCall =>
      /\ Age(pendingCalls[c]) <= PENDING_CALL_TTL + SWEEP_INTERVAL
      /\ Age(pendingCalls[c]) = PENDING_CALL_TTL + SWEEP_INTERVAL => now = nextSweep
      /\ JustSwept => Age(pendingCalls[c]) <= PENDING_CALL_TTL

\* The sweep at 70 s has run: the entry recorded under c2 at 10 s was 60 s
\* old and stays, and c1 has no entry.
C16_Witness ==
  /\ now = 70000
  /\ JustSwept
  /\ pendingCalls["c1"] = NoCall
  /\ pendingCalls["c2"] # NoCall
  /\ pendingCalls["c2"].timestamp = 10000

(***************************************************************************)
(* What a returned path names (SpecResolver).                              *)
(***************************************************************************)
\* C17: a download, an ensure or a resolution that returns a path in this
\* step returns the path of a file that is on disk when it returns, and so
\* a path that becomes the resolved path names a file on disk.
C17_ReturnedPathExists ==
  [][ /\ \A t \in TaskIds :
           (tasks[t].pc # "settled" /\ tasks'[t].pc = "settled"
              /\ tasks'[t].result # NoPath) =>
             existsSync(tasks'[t].result, disk')
      /\ (resolvedCliPath = NoPath /\ resolvedCliPath' # NoPath) =>
           existsSync(resolvedCliPath', disk') ]_vars

(***************************************************************************)
(* One record under concurrent after-hooks (SpecOnce): the plugin was      *)
(* constructed with nothing on disk, so the download is in flight, and the *)
(* edit was recorded under c1 at time 0.  The host issues after-hooks for  *)
(* both identifiers, records writes under c1, and the clock and the sweep  *)
(* run while after-hooks are suspended.                                    *)
(***************************************************************************)
FirstRecord == pendingCallOf(FirstInput, "s1", 0)

InitOnce ==
  /\ now = 0
  /\ nextSweep = SWEEP_INTERVAL
  /\ pendingCalls = [c \in CallIDs |-> IF c = "c1" THEN FirstRecord ELSE NoCall]
  /\ hooks = [s \in AfterSlots |-> IdleHook]
  /\ done = NoneDone
  /\ platform = <<"linux", "x64">>
  /\ cliPathPromise = ConstructedOn(EmptyDisk).ret
  /\ disk = ConstructedOn(EmptyDisk).st.disk
  /\ resolvedCliPath = ConstructedOn(EmptyDisk).st.resolved
  /\ initPromise = ConstructedOn(EmptyDisk).st.init
  /\ tasks = ConstructedOn(EmptyDisk).st.tasks
  /\ callers = [i \in ApiCalls |-> NullPromise]
  /\ syncRet = "none"
  /\ run = IdleRun

NextOnce ==
  \/ Tick
  \/ Sweep
  \/ \E sid \in SessionIDs : Before("c1", SecondInput, sid)
  \/ \E c \in CallIDs : AfterCall(HookSlots, c, OutOk)
  \/ \E s \in HookSlots : AfterResume(s)
  \/ \E s \in HookSlots, exitCode \in ExitCodes, stderr \in Stderrs :
       AfterProcExit(s, exitCode, stderr)
  \/ Download

SpecOnce == InitOnce /\ [][NextOnce]_vars

\* In this step the invocation in slot s spawns the checker.
SpawnStep(s) == ~hooks[s].spawned /\ hooks'[s].spawned

\* The first record can still lead to a check: it is in the table, or an
\* after-hook holds it and has not passed its await.
FirstPending ==
  \/ \E c \in CallIDs : pendingCalls[c] = FirstRecord
  \/ \E s \in AfterSlots : hooks[s].pc = "awaitPath" /\ hooks[s].call = FirstRecord

\* C18: the checker is spawned only by an after-hook that obtained a record,
\* for that record, and the record it obtained is the one stored under its
\* own call identifier; the spawn for the first record is made by an
\* after-hook for c1 and leaves the record neither in the table nor with
\* any after-hook still to run, and once that is so it stays so: the first
\* record is checked at most once, whatever after-hooks, records and sweeps
\* run meanwhile.
C18_CheckedAtMostOnce ==
  [][ /\ \A s \in AfterSlots :
           /\ SpawnStep(s) =>
                /\ hooks[s].pc = "awaitPath"
                /\ hooks[s].call # NoCall
                /\ hooks'[s].call = hooks[s].call
                /\ hooks'[s].callID = hooks[s].callID
           /\ Took(s) =>
                /\ pendingCalls[hooks'[s].callID] # NoCall
                /\ hooks'[s].call = pendingCalls[hooks'[s].callID]
           /\ (SpawnStep(s) /\ hooks[s].call = FirstRecord) =>
                hooks[s].callID = "c1" /\ ~FirstPending'
      /\ ~FirstPending => ~FirstPending' ]_vars

\* Two after-hooks for c1 run at once, both past the await and with the
\* checker spawned: one holds the first record, the other the write recorded
\* under c1 at 20 s, after a sweep and while the first was suspended.
C18_Witness ==
  /\ hooks[1].pc = "awaitProc" /\ hooks[1].callID = "c1"
  /\ hooks[1].call = FirstRecord
  /\ hooks[2].pc = "awaitProc" /\ hooks[2].callID = "c1"
  /\ hooks[2].call.tool = toLowerCase(ToolWrite)
  /\ hooks[2].call.timestamp = 20000
  /\ hooks[1].spawned /\ hooks[2].spawned

(***************************************************************************)
(* The accessors after the resolution has settled (SpecCheck).             *)
(***************************************************************************)
\* The resolution the plugin started has settled; Outcome is what it
\* returned and what getCommentCheckerPath returns from then on.
PluginResolved == cliPathPromise # NullPromise /\ Settled(cliPathPromise, tasks)
Outcome == ValueOf(cliPathPromise, tasks)

\* This step is a call of runCommentChecker without an explicit cliPath.
RunCallNoOpt == run.pc \in {"idle", "done"} /\ run' # run /\ run'.opt = Undefined

\* C19 as stated: once the resolution has settled, getCommentCheckerPathSync
\* returns its outcome, and runCommentChecker without cliPath picks it.
C19_AccessorsAgree ==
  [][ PluginResolved =>
        /\ syncRet' # syncRet => syncRet' = Outcome
        /\ RunCallNoOpt => run'.bin = Outcome ]_vars

\* C19, amended: once the resolution has settled with a path, both return
\* that path, whatever has happened to the file system since; once it has
\* settled with absent, both look on disk again and return the bundled
\* executable if it is there, else the cached one if it is there, else
\* absent.
C19_AccessorsAgreeOnPath ==
  [][ PluginResolved =>
        LET lookup == IF disk.bundled THEN BundledPath
                      ELSE IF disk.cacheBin # "absent" THEN CachePath
                      ELSE NoPath
            expected == IF Outcome # NoPath THEN Outcome ELSE lookup
        IN /\ syncRet' # syncRet => syncRet' = expected
           /\ RunCallNoOpt => run'.bin = expected ]_vars

\* The resolution settled with the cached executable; the bundled one was
\* installed afterwards, and both accessors still gave the cached path.
C19_Witness ==
  /\ PluginResolved
  /\ Outcome = CachePath
  /\ disk.bundled
  /\ syncRet = CachePath
  /\ run.pc = "done" /\ run.opt = Undefined /\ run.bin = CachePath

(***************************************************************************)
(* C20: the executable a running download is writing is not used.          *)
(***************************************************************************)
\* A download is past its spawn of the extraction utility and has not
\* returned; the utility has created the executable in the cache directory.
StagingInFlight ==
  /\ disk.cacheBin = "staging"
  /\ \E t \in TaskIds : tasks[t].pc = "extract"

\* C20: while a download of this process is in flight and the executable it
\* is staging is in the cache directory, getCommentCheckerPathSync() does
\* not return the path of that executable, and runCommentChecker without
\* an explicit cliPath does not spawn it.
C20_StagedNotUsedInFlight ==
  [][ StagingInFlight =>
        /\ syncRet' # syncRet => syncRet' # CachePath
        /\ RunCallNoOpt => ~(run'.bin = CachePath /\ run'.spawned) ]_vars

====
